---- MODULE Spec2Model ----
(***************************************************************************)
(* Cafe passport: the nested visit-logging workflow (VisitCreateView,      *)
(* VisitUpdateView, LogCafeVisitView, VisitDeleteView) and the owner-only  *)
(* detail views, over the relational store of models.py.                   *)
(*                                                                         *)
(* Every visit request is one action: the whole handler runs, the rows it  *)
(* writes inside `with transaction.atomic()` are committed or rolled back, *)
(* and the response is recorded in `last`.  Every authenticated user has a *)
(* CafeProfile (SignUpForm.save creates it), so a user is named by its     *)
(* profile.                                                                *)
(*                                                                         *)
(* The sticker endpoints (PlaceStickerView, UpdateStickerView,             *)
(* StickerDeleteView) and the wishlist endpoints (AddToWishlistView,       *)
(* AddWishlistView, RemoveFromWishlistView, CafeCreateView) have their own *)
(* specifications, SpecStickers and SpecWishlist, over the same store; the *)
(* handlers that read a row and write it later, outside any transaction,   *)
(* are two actions there.                                                  *)
(***************************************************************************)
EXTENDS Integers, Sequences, FiniteSets, TLC

(***************************************************************************)
(* Bounds of the model.                                                    *)
(***************************************************************************)
MaxRequests == 2      \* requests served in one behaviour
MaxPhotoForms == 6    \* photo forms (entries) of one submission

(***************************************************************************)
(* Program constants.                                                      *)
(***************************************************************************)
VisitPhotoMaxNum == 5     \* VisitPhotoFormSet max_num
FavoriteItemMaxNum == 3   \* FavoriteItemFormSet max_num
ItemPhotoMaxNum == 2      \* ItemPhotoFormSetFactory max_num
RatingMin == 0            \* VisitForm.user_rating min_value
RatingMax == 5            \* VisitForm.user_rating max_value
AmountMin == 0            \* VisitForm.amount_spent min_value

Profiles == {"p1", "p2"}
Cafes == {"c1", "c2"}
NoCafe == "c404"          \* a route pk that matches no Cafe row
None == "None"            \* Python None: a key absent from the request

\* float(): the request carries its numbers as text
Float(s) ==
    CASE s = "-1" -> 0 - 1
      [] s = "2" -> 2
      [] s = "3" -> 3
      [] s = "4" -> 4
      [] s = "5" -> 5
      [] s = "6" -> 6
      [] s = "10" -> 10
      [] s = "20" -> 20

(***************************************************************************)
(* The store.  db.visits, db.photos, db.items and db.itemPhotos are the    *)
(* tables Visit, VisitPhoto, FavoriteItem and ItemPhoto as functions from  *)
(* primary key to row, db.stickers and db.wishes the tables Sticker and    *)
(* CafeWish, db.cafes the Cafe rows created since the start; db.seq* are   *)
(* the AUTOINCREMENT sequences.                                            *)
(*                                                                         *)
(* pending holds the requests in flight: the sticker and wishlist handlers *)
(* read the store and write it in separate statements, outside any         *)
(* transaction, and other requests may run between the two.  deleted is    *)
(* the set of Sticker ids whose Delete request has reported success.       *)
(***************************************************************************)
VARIABLES db, last, served, pending, deleted

vars == <<db, last, served, pending, deleted>>

EmptyFn == [x \in {} |-> x]

\* the StickerType rows, by name, and the image of each
StickerTypes == {"heart", "star"}

SeedTypeImages ==
    [n \in StickerTypes |-> IF n = "heart" THEN "sticker_options/heart.png"
                            ELSE "sticker_options/star.png"]

EmptyDb ==
    [visits |-> EmptyFn, photos |-> EmptyFn, items |-> EmptyFn, itemPhotos |-> EmptyFn,
     stickers |-> EmptyFn, wishes |-> EmptyFn, cafes |-> {}, deletedCafes |-> {},
     typeImages |-> SeedTypeImages,
     seqVisit |-> 0, seqPhoto |-> 0, seqItem |-> 0, seqItemPhoto |-> 0,
     seqSticker |-> 0, seqWish |-> 0]

\* the rows of the tables, without the sequences
Rows(d) ==
    [visits |-> d.visits, photos |-> d.photos, items |-> d.items, itemPhotos |-> d.itemPhotos,
     stickers |-> d.stickers, wishes |-> d.wishes, cafes |-> d.cafes]

Restrict(f, S) == [x \in S |-> f[x]]

Extend(f, k, v) == [x \in (DOMAIN f) \cup {k} |-> IF x = k THEN v ELSE f[x]]

PhotosOf(d, v) == {p \in DOMAIN d.photos : d.photos[p].visit = v}
ItemsOf(d, v) == {i \in DOMAIN d.items : d.items[i].visit = v}
ItemPhotosOf(d, i) == {p \in DOMAIN d.itemPhotos : d.itemPhotos[p].favorite_item = i}
StickersOf(d, v) == {k \in DOMAIN d.stickers : d.stickers[k].visit = v}

\* the Cafe rows: the ones the store starts with and the created ones, less
\* the deleted ones
CafeExists(d, c) == c \in (Cafes \cup d.cafes) \ d.deletedCafes

(***************************************************************************)
(* A unit of work inside `with transaction.atomic()`: t.db is the store as *)
(* the writes so far left it, t.ok is FALSE once a statement has raised,   *)
(* t.n counts the rows written, t.new the primary key of the Visit.        *)
(***************************************************************************)
Begin(d) == [db |-> d, ok |-> TRUE, n |-> 0, new |-> 0]

Raise(t) == [t EXCEPT !.ok = FALSE]

\* Visit.save() of a new row: profile and cafe come from the handler, the
\* NOT NULL columns date_visited, user_rating, amount_spent and notes from f
InsertVisit(t, profile, cafe, f) ==
    IF ~t.ok THEN t
    ELSE IF f.date = None \/ f.rating = None \/ f.amount = None \/ f.notes = None
         THEN Raise(t)
         ELSE LET k == t.db.seqVisit + 1
              IN  [t EXCEPT !.db.visits = Extend(@, k, [profile |-> profile, cafe |-> cafe,
                                                          rating |-> Float(f.rating)]),
                            !.db.seqVisit = k, !.n = @ + 1, !.new = k]

\* the instance of a bound ModelForm: every column that cleaned_data names
\* is assigned from it, the others stay as loaded
ConstructInstance(row, f) ==
    [profile |-> IF "profile" \in DOMAIN f /\ f.profile # None THEN f.profile ELSE row.profile,
     cafe |-> IF "cafe" \in DOMAIN f /\ f.cafe # None THEN f.cafe ELSE row.cafe,
     rating |-> Float(f.rating)]

\* Visit.save() of an existing row through VisitForm: the form's fields only
UpdateVisit(t, pk, f) ==
    IF ~t.ok THEN t
    ELSE IF f.amount = None THEN Raise(t)
         ELSE [t EXCEPT !.db.visits[pk] = ConstructInstance(@, f), !.n = @ + 1, !.new = pk]

InsertPhoto(t, visit, caption) ==
    IF ~t.ok THEN t
    ELSE IF caption = None THEN Raise(t)
         ELSE LET k == t.db.seqPhoto + 1
              IN  [t EXCEPT !.db.photos = Extend(@, k, [visit |-> visit]),
                            !.db.seqPhoto = k, !.n = @ + 1]

DeletePhoto(t, pk) ==
    IF ~t.ok THEN t
    ELSE [t EXCEPT !.db.photos = Restrict(@, (DOMAIN @) \ {pk}), !.n = @ + 1]

InsertItem(t, visit, f) ==
    IF ~t.ok THEN t
    ELSE IF f.price = None \/ f.rating = None \/ f.description = None THEN Raise(t)
         ELSE LET k == t.db.seqItem + 1
              IN  [t EXCEPT !.db.items = Extend(@, k, [visit |-> visit]),
                            !.db.seqItem = k, !.n = @ + 1]

InsertItemPhoto(t, item, caption) ==
    IF ~t.ok THEN t
    ELSE IF caption = None THEN Raise(t)
         ELSE LET k == t.db.seqItemPhoto + 1
              IN  [t EXCEPT !.db.itemPhotos = Extend(@, k, [favorite_item |-> item]),
                            !.db.seqItemPhoto = k, !.n = @ + 1]

DeleteItemPhoto(t, pk) ==
    IF ~t.ok THEN t
    ELSE [t EXCEPT !.db.itemPhotos = Restrict(@, (DOMAIN @) \ {pk}), !.n = @ + 1]

\* FavoriteItem.delete(): on_delete=CASCADE removes its ItemPhotos; an
\* instance without a primary key cannot be deleted (ValueError)
DeleteItem(t, pk) ==
    IF ~t.ok THEN t
    ELSE IF pk = 0 THEN Raise(t)
         ELSE [t EXCEPT !.db.items = Restrict(@, (DOMAIN @) \ {pk}),
                        !.db.itemPhotos = Restrict(@, (DOMAIN @) \ ItemPhotosOf(t.db, pk)),
                        !.n = @ + 1]

\* Visit.delete(): on_delete=CASCADE removes photos, items, item photos and
\* stickers
\* A Sticker.visit that is not on_delete=CASCADE.
CascadeDeleteVisitKeepsStickers(d, pk) ==
    LET its == ItemsOf(d, pk)
        ips == {p \in DOMAIN d.itemPhotos : d.itemPhotos[p].favorite_item \in its}
    IN  [d EXCEPT !.visits = Restrict(@, (DOMAIN @) \ {pk}),
                  !.photos = Restrict(@, (DOMAIN @) \ PhotosOf(d, pk)),
                  !.items = Restrict(@, (DOMAIN @) \ its),
                  !.itemPhotos = Restrict(@, (DOMAIN @) \ ips)]

CascadeDeleteVisit(d, pk) ==
    LET its == ItemsOf(d, pk)
        ips == {p \in DOMAIN d.itemPhotos : d.itemPhotos[p].favorite_item \in its}
    IN  [d EXCEPT !.visits = Restrict(@, (DOMAIN @) \ {pk}),
                  !.photos = Restrict(@, (DOMAIN @) \ PhotosOf(d, pk)),
                  !.items = Restrict(@, (DOMAIN @) \ its),
                  !.itemPhotos = Restrict(@, (DOMAIN @) \ ips),
                  !.stickers = Restrict(@, (DOMAIN @) \ StickersOf(d, pk))]

\* Cafe.delete(): Visit.cafe and CafeWish.cafe are on_delete=CASCADE
RECURSIVE CascadeDeleteVisits(_, _)
CascadeDeleteVisits(d, S) ==
    IF S = {} THEN d
    ELSE LET pk == CHOOSE v \in S : TRUE
         IN  CascadeDeleteVisits(CascadeDeleteVisit(d, pk), S \ {pk})

CascadeDeleteCafe(d, c) ==
    LET vs == {v \in DOMAIN d.visits : d.visits[v].cafe = c}
        ws == {w \in DOMAIN d.wishes : d.wishes[w].cafe = c}
    IN  [CascadeDeleteVisits(d, vs) EXCEPT !.wishes = Restrict(@, (DOMAIN @) \ ws),
                                           !.deletedCafes = @ \cup {c}]

\* A block without a transaction: what was written before the raise stays.
AtomicKeepsPartial(pre, t) == t.db

\* transaction.atomic(): commit when the block ends, roll back when it raises
Atomic(pre, t) == IF t.ok THEN t.db ELSE pre

(***************************************************************************)
(* Protocol A: the multi-part form of VisitCreateView and VisitUpdateView.  *)
(* A submission is                                                          *)
(*   [date, rating, amount, notes, profile, cafe, photos, items]            *)
(* where profile and cafe are values a client may add to the body, photos   *)
(* is the 'photos' formset, a sequence of [id, image, caption, DELETE], and *)
(* items is the 'items' formset, a sequence of                              *)
(*   [id, name, price, rating, description, DELETE, photos]                 *)
(* whose photos is the nested 'item_photos-<i>' formset.  id is the primary *)
(* key of an initial form and 0 for an extra form.                          *)
(***************************************************************************)
Blank(s) == s = None \/ s = ""

\* VisitForm.is_valid(): date_visited and user_rating are required,
\* user_rating lies in [0, 5], amount_spent is optional and at least 0
VisitFormValid(f) ==
    /\ ~Blank(f.date)
    /\ ~Blank(f.rating)
    /\ Float(f.rating) >= RatingMin
    /\ Float(f.rating) <= RatingMax
    /\ (Blank(f.amount) \/ Float(f.amount) >= AmountMin)

\* The cleaned_data of a form whose Meta.fields also names profile and cafe.
VisitFormCleanedAllFields(f) ==
    [date |-> f.date, rating |-> f.rating,
     amount |-> IF Blank(f.amount) THEN None ELSE f.amount,
     notes |-> IF Blank(f.notes) THEN "" ELSE f.notes,
     profile |-> f.profile, cafe |-> f.cafe]

\* VisitForm.cleaned_data: an empty optional field is None (amount_spent)
\* or '' (notes); Meta.fields leaves profile and cafe out
VisitFormCleaned(f) ==
    [date |-> f.date, rating |-> f.rating,
     amount |-> IF Blank(f.amount) THEN None ELSE f.amount,
     notes |-> IF Blank(f.notes) THEN "" ELSE f.notes]

\* ModelForm.has_changed() of a photo form
PhotoFormChanged(f) == f.image \/ ~Blank(f.caption) \/ f.DELETE

\* VisitPhotoForm / ItemPhotoForm .is_valid(): an unchanged extra form is
\* skipped, a changed one needs its image; an initial form has one already
PhotoFormValid(f) == f.id # 0 \/ ~PhotoFormChanged(f) \/ f.image

\* BaseFormSet.is_valid(): the forms not marked for deletion are valid;
\* max_num is not validated (validate_max is left False)
PhotoFormSetValid(fs) == \A i \in DOMAIN fs : fs[i].DELETE \/ PhotoFormValid(fs[i])

ItemFormChanged(f) ==
    ~Blank(f.name) \/ ~Blank(f.price) \/ ~Blank(f.rating) \/ ~Blank(f.description) \/ f.DELETE

\* FavoriteItemForm.is_valid(): name, price and rating are required
ItemFormValid(f) ==
    \/ f.id = 0 /\ ~ItemFormChanged(f)
    \/ ~Blank(f.name) /\ ~Blank(f.price) /\ ~Blank(f.rating)

FavoriteItemFormSetValid(fs) == \A i \in DOMAIN fs : fs[i].DELETE \/ ItemFormValid(fs[i])

\* item_form.cleaned_data is empty for an unchanged extra form only
ItemFormHasData(f) == f.id # 0 \/ ItemFormChanged(f)

ItemFormCleaned(f) ==
    [price |-> f.price, rating |-> f.rating,
     description |-> IF Blank(f.description) THEN "" ELSE f.description]

CaptionCleaned(f) == IF Blank(f.caption) THEN "" ELSE f.caption

\* BaseModelFormSet.save_existing_objects of the 'photos' formset
RECURSIVE SaveExistingPhotos(_, _, _)
SaveExistingPhotos(t, fs, i) ==
    IF i > Len(fs) THEN t
    ELSE LET f == fs[i]
             u == IF f.id # 0 /\ f.DELETE THEN DeletePhoto(t, f.id) ELSE t
         IN  SaveExistingPhotos(u, fs, i + 1)

\* BaseModelFormSet.save_new_objects of the 'photos' formset
RECURSIVE SaveNewPhotos(_, _, _, _)
SaveNewPhotos(t, visit, fs, i) ==
    IF i > Len(fs) THEN t
    ELSE LET f == fs[i]
             u == IF f.id = 0 /\ PhotoFormChanged(f) /\ ~f.DELETE
                  THEN InsertPhoto(t, visit, CaptionCleaned(f))
                  ELSE t
         IN  SaveNewPhotos(u, visit, fs, i + 1)

\* visit_photo_formset.save()
SavePhotoFormSet(t, visit, fs) == SaveNewPhotos(SaveExistingPhotos(t, fs, 1), visit, fs, 1)

RECURSIVE SaveExistingItemPhotos(_, _, _)
SaveExistingItemPhotos(t, fs, i) ==
    IF i > Len(fs) THEN t
    ELSE LET f == fs[i]
             u == IF f.id # 0 /\ f.DELETE THEN DeleteItemPhoto(t, f.id) ELSE t
         IN  SaveExistingItemPhotos(u, fs, i + 1)

RECURSIVE SaveNewItemPhotos(_, _, _, _)
SaveNewItemPhotos(t, item, fs, i) ==
    IF i > Len(fs) THEN t
    ELSE LET f == fs[i]
             u == IF f.id = 0 /\ PhotoFormChanged(f) /\ ~f.DELETE
                  THEN InsertItemPhoto(t, item, CaptionCleaned(f))
                  ELSE t
         IN  SaveNewItemPhotos(u, item, fs, i + 1)

\* nested_photo_formset.save() with nested_photo_formset.instance = item
SaveItemPhotoFormSet(t, item, fs) ==
    SaveNewItemPhotos(SaveExistingItemPhotos(t, fs, 1), item, fs, 1)

\* get_context_data of VisitCreateView attaches a nested formset to every
\* item form; that of VisitUpdateView only where form.instance.pk is set
HasNestedCreate(f) == TRUE

HasNestedUpdate(f) == f.id # 0

HasNested(f, create) == IF create THEN HasNestedCreate(f) ELSE HasNestedUpdate(f)

\* the item forms the all_nested_valid loop looks at: not marked for
\* deletion and with a nested formset attached
NestedChecked(fs, create) == {i \in DOMAIN fs : ~fs[i].DELETE /\ HasNested(fs[i], create)}

\* the item forms whose nested_photo_formset.is_valid() the loop calls: it
\* breaks at the first invalid one
NestedValidated(fs, create) ==
    {i \in NestedChecked(fs, create) :
        \A j \in NestedChecked(fs, create) : j < i => PhotoFormSetValid(fs[j].photos)}

\* all_nested_valid at the end of the loop of form_valid
NestedValid(fs, create) ==
    \A i \in NestedValidated(fs, create) : PhotoFormSetValid(fs[i].photos)

\* favorite_item.save() of one item form, then its nested formset
SaveItemForm(t, visit, f, create) ==
    IF ~t.ok THEN t
    ELSE LET u == IF f.id = 0 THEN InsertItem(t, visit, ItemFormCleaned(f))
                  ELSE [t EXCEPT !.db.items[f.id].visit = visit, !.n = @ + 1]
             k == IF f.id = 0 THEN u.db.seqItem ELSE f.id
         IN  IF HasNested(f, create)
             THEN SaveItemPhotoFormSet(u, k, f.photos)
             ELSE u

\* the loop over favorite_item_formset.forms inside the atomic block: the
\* create view deletes a flagged form's instance unguarded, the update view
\* only when the instance has a primary key
RECURSIVE SaveItemForms(_, _, _, _, _)
SaveItemForms(t, visit, fs, i, create) ==
    IF i > Len(fs) THEN t
    ELSE LET f == fs[i]
             u == IF ItemFormHasData(f) /\ ~f.DELETE THEN SaveItemForm(t, visit, f, create)
                  ELSE IF ItemFormHasData(f) /\ f.DELETE
                       THEN IF create \/ f.id # 0 THEN DeleteItem(t, f.id) ELSE t
                       ELSE t
         IN  SaveItemForms(u, visit, fs, i + 1, create)

(***************************************************************************)
(* The handlers.  Each yields [db, status, n, new]: the store after the    *)
(* request, the HTTP status (302 redirect after success, 200 a re-rendered *)
(* form or a page, 400, 404, 500), the rows written inside the atomic      *)
(* block before it ended, and the primary key of the Visit saved.          *)
(***************************************************************************)
Response(d, status) == [db |-> d, status |-> status, n |-> 0, new |-> 0]

\* An owner taken from a profile field of the request body when one is sent.
VisitOwnerFromBody(actor, in) == IF in.profile = None THEN actor ELSE in.profile

\* self.object.profile = self.request.user.cafe_profile
VisitOwner(actor, in) == actor

\* self.object.cafe = self.cafe, the cafe of the route
VisitCafe(cafe_pk, in) == cafe_pk

\* the checks of form_valid before the atomic block (and form.is_valid() of
\* ProcessFormView.post before form_valid is entered)
ProtocolAValid(in, create) ==
    /\ VisitFormValid(in)
    /\ PhotoFormSetValid(in.photos)
    /\ FavoriteItemFormSetValid(in.items)
    /\ NestedValid(in.items, create)

\* the atomic block of VisitCreateView.form_valid
VisitCreateWrites(d, actor, cafe_pk, in) ==
    LET t1 == InsertVisit(Begin(d), VisitOwner(actor, in), VisitCafe(cafe_pk, in),
                          VisitFormCleaned(in))
        t2 == SavePhotoFormSet(t1, t1.new, in.photos)
    IN  SaveItemForms(t2, t1.new, in.items, 1, TRUE)

\* POST /cafe/<cafe_pk>/add_visit/
VisitCreate(d, actor, cafe_pk, in) ==
    IF ~CafeExists(d, cafe_pk) THEN Response(d, 404)
    ELSE IF ~ProtocolAValid(in, TRUE) THEN Response(d, 200)
    ELSE LET t == VisitCreateWrites(d, actor, cafe_pk, in)
         IN  [db |-> Atomic(d, t), status |-> IF t.ok THEN 302 ELSE 500,
              n |-> t.n, new |-> IF t.ok THEN t.new ELSE 0]

\* the atomic block of VisitUpdateView.form_valid
VisitUpdateWrites(d, pk, in) ==
    LET t1 == UpdateVisit(Begin(d), pk, VisitFormCleaned(in))
        t2 == SavePhotoFormSet(t1, pk, in.photos)
    IN  SaveItemForms(t2, pk, in.items, 1, FALSE)

\* get_object() of VisitUpdateView and VisitDeleteView: the default queryset
\* of model = Visit; test_func is defined but the views do not derive from
\* UserPassesTestMixin, so dispatch never calls it
VisitResolves(d, actor, pk) == pk \in DOMAIN d.visits

\* POST /visit/<pk>/update/
VisitUpdate(d, actor, pk, in) ==
    IF ~VisitResolves(d, actor, pk) THEN Response(d, 404)
    ELSE IF ~ProtocolAValid(in, FALSE) THEN Response(d, 200)
    ELSE LET t == VisitUpdateWrites(d, pk, in)
         IN  [db |-> Atomic(d, t), status |-> IF t.ok THEN 302 ELSE 500,
              n |-> t.n, new |-> IF t.ok THEN t.new ELSE 0]

\* POST /visit/<pk>/delete/
VisitDelete(d, actor, pk) ==
    IF ~VisitResolves(d, actor, pk) THEN Response(d, 404)
    ELSE [db |-> CascadeDeleteVisit(d, pk), status |-> 302, n |-> 1, new |-> 0]

(***************************************************************************)
(* Protocol B: LogCafeVisitView.  A request is                              *)
(*   [date, rating, amount, notes, profile, cafe, dynamic_data, doc]        *)
(* where dynamic_data is the text of the POST field (None when absent) and  *)
(* doc = [visitPhotos, favoriteItems] is what a well-formed text parses to; *)
(* a photo entry is [file, caption] with file TRUE when its file_key names  *)
(* an uploaded file, an item entry [name, price, rating, description,       *)
(* photos].                                                                 *)
(***************************************************************************)
WellFormedJson == "{...}"

\* A parser that accepts any text.
JsonDecodeErrorNever(text) == FALSE

\* json.loads: TRUE when it raises JSONDecodeError
JsonDecodeError(text) == text # WellFormedJson

RECURSIVE LogVisitPhotos(_, _, _, _)
LogVisitPhotos(t, visit, es, i) ==
    IF i > Len(es) THEN t
    ELSE LogVisitPhotos(IF es[i].file THEN InsertPhoto(t, visit, es[i].caption) ELSE t,
                        visit, es, i + 1)

RECURSIVE LogItemPhotos(_, _, _, _)
LogItemPhotos(t, item, es, i) ==
    IF i > Len(es) THEN t
    ELSE LogItemPhotos(IF es[i].file THEN InsertItemPhoto(t, item, es[i].caption) ELSE t,
                       item, es, i + 1)

\* An entry filter that lets every entry through.
NamelessEntryNever(e) == FALSE

\* `if not item_data.get('name'): continue`
NamelessEntry(e) == Blank(e.name)

RECURSIVE LogFavoriteItems(_, _, _, _)
LogFavoriteItems(t, visit, es, i) ==
    IF i > Len(es) THEN t
    ELSE LET e == es[i]
             u == IF NamelessEntry(e) THEN t
                  ELSE LET v == InsertItem(t, visit, e)
                       IN  LogItemPhotos(v, v.db.seqItem, e.photos, 1)
         IN  LogFavoriteItems(u, visit, es, i + 1)

\* the atomic block of LogCafeVisitView.post
LogVisitWrites(d, actor, cafe_pk, in) ==
    LET t1 == InsertVisit(Begin(d), VisitOwner(actor, in), VisitCafe(cafe_pk, in), in)
        t2 == LogVisitPhotos(t1, t1.new, in.doc.visitPhotos, 1)
    IN  LogFavoriteItems(t2, t1.new, in.doc.favoriteItems, 1)

\* POST /cafe/<cafe_pk>/log_visit/: Http404 of get_object_or_404 is raised
\* inside the try and caught by `except Exception`
LogCafeVisit(d, actor, cafe_pk, in) ==
    IF ~CafeExists(d, cafe_pk) THEN Response(d, 500)
    ELSE IF Blank(in.dynamic_data) THEN Response(d, 400)
    ELSE IF JsonDecodeError(in.dynamic_data) THEN Response(d, 400)
    ELSE LET t == LogVisitWrites(d, actor, cafe_pk, in)
         IN  [db |-> Atomic(d, t), status |-> IF t.ok THEN 200 ELSE 500,
              n |-> t.n, new |-> IF t.ok THEN t.new ELSE 0]

(***************************************************************************)
(* The detail views: 200 with the object, or 404.                          *)
(***************************************************************************)
\* A queryset that forgets the owner filter.
VisitDetailQuerysetAll(d, actor) == DOMAIN d.visits

\* VisitDetailView.get_queryset: Visit.objects.filter(profile=profile)
VisitDetailQueryset(d, actor) == {v \in DOMAIN d.visits : d.visits[v].profile = actor}

\* FavoriteItemDetailView.get_queryset: filter(visit__profile__user=user)
FavoriteItemDetailQueryset(d, actor) ==
    {i \in DOMAIN d.items : d.visits[d.items[i].visit].profile = actor}

\* GET /visit/<pk>/
VisitDetail(d, actor, pk) ==
    Response(d, IF pk \in VisitDetailQueryset(d, actor) THEN 200 ELSE 404)

\* GET /favorite-item/<pk>/
FavoriteItemDetail(d, actor, pk) ==
    Response(d, IF pk \in FavoriteItemDetailQueryset(d, actor) THEN 200 ELSE 404)

(***************************************************************************)
(* The requests the model submits.                                         *)
(***************************************************************************)
VisitFields(rating, amount, notes) ==
    [date |-> "2025-12-01", rating |-> rating, amount |-> amount, notes |-> notes,
     profile |-> None, cafe |-> None]

GoodFields == VisitFields("4", "3", "n")

\* Visit-level field sets: a second good one, then out of range, missing
\* rating, negative amount, blank amount, blank notes, missing date
FieldVariants ==
    {VisitFields("2", "3", "n"), VisitFields("6", "3", "n"), VisitFields(None, "3", "n"),
     VisitFields("4", "-1", "n"), VisitFields("4", None, "n"), VisitFields("4", "3", None),
     [GoodFields EXCEPT !.date = None]}

\* a body that also names an owner and a cafe
ForgedFields == {[GoodFields EXCEPT !.profile = p, !.cafe = c] : p \in Profiles, c \in Cafes}

NewPhoto == [id |-> 0, image |-> TRUE, caption |-> "cap", DELETE |-> FALSE]
NoImagePhoto == [NewPhoto EXCEPT !.image = FALSE]
BlankPhoto == [NewPhoto EXCEPT !.image = FALSE, !.caption = ""]
NewPhotos(n) == [i \in 1..n |-> NewPhoto]

NewItem(photos) ==
    [id |-> 0, name |-> "latte", price |-> "5", rating |-> "4", description |-> "",
     DELETE |-> FALSE, photos |-> photos]
BlankItem(photos) == [NewItem(photos) EXCEPT !.name = "", !.price = "", !.rating = ""]
NewItems(shape) == [i \in DOMAIN shape |-> NewItem(NewPhotos(shape[i]))]

\* numbers of ItemPhotos per FavoriteItem of a submission
ItemShapes ==
    {<<>>, <<0>>, <<1>>, <<2>>, <<3>>, <<1, 2>>, <<2, 0, 1>>, <<0, 0, 0>>, <<0, 0, 0, 0>>}

FormA(fields, photos, items) ==
    [date |-> fields.date, rating |-> fields.rating, amount |-> fields.amount,
     notes |-> fields.notes, profile |-> fields.profile, cafe |-> fields.cafe,
     photos |-> photos, items |-> items]

\* submissions of the create form: every number of photos, every item
\* shape, every field set, then entries that are blank, invalid or flagged
CreateForms ==
    {FormA(GoodFields, NewPhotos(n), <<>>) : n \in 0..MaxPhotoForms}
    \cup {FormA(GoodFields, NewPhotos(n), NewItems(sh)) : n \in 0..1, sh \in ItemShapes}
    \cup {FormA(f, NewPhotos(1), NewItems(<<1>>)) : f \in FieldVariants}
    \cup {FormA(f, <<>>, <<>>) : f \in ForgedFields \cup FieldVariants}
    \cup {FormA(GoodFields, ps, NewItems(<<1>>)) :
            ps \in {<<NewPhoto, NoImagePhoto>>, <<NewPhoto, BlankPhoto>>,
                    <<[NewPhoto EXCEPT !.DELETE = TRUE], NewPhoto>>}}
    \cup {FormA(GoodFields, NewPhotos(1), is) :
            is \in {<<NewItem(NewPhotos(1)), [NewItem(<<>>) EXCEPT !.name = ""]>>,
                    <<NewItem(NewPhotos(1)), BlankItem(<<>>)>>,
                    <<BlankItem(NewPhotos(1))>>,
                    <<NewItem(NewPhotos(1)), NewItem(<<NoImagePhoto>>)>>,
                    <<NewItem(<<NoImagePhoto>>), NewItem(<<NewPhoto, NoImagePhoto>>)>>,
                    <<NewItem(NewPhotos(1)), [NewItem(<<>>) EXCEPT !.DELETE = TRUE]>>,
                    <<NewItem(NewPhotos(1)), [NewItem(<<NoImagePhoto>>) EXCEPT !.DELETE = TRUE]>>}}

\* the elements of a set of primary keys in ascending order
RECURSIVE Ascending(_)
Ascending(S) ==
    IF S = {} THEN <<>>
    ELSE LET m == CHOOSE x \in S : \A y \in S : x <= y
         IN  <<m>> \o Ascending(S \ {m})

First(S) == IF S = {} THEN {} ELSE {CHOOSE x \in S : \A y \in S : x <= y}

\* the initial forms of the rows S, those in del flagged for deletion
InitialPhotos(S, del) ==
    LET ids == Ascending(S)
    IN  [i \in DOMAIN ids |-> [id |-> ids[i], image |-> FALSE, caption |-> "cap",
                               DELETE |-> ids[i] \in del]]

InitialItem(d, i, del, photos) ==
    [id |-> i, name |-> "latte", price |-> "5", rating |-> "4", description |-> "",
     DELETE |-> i \in del, photos |-> photos]

\* the initial item forms of visit pk: the items in del flagged, the nested
\* photos in pdel flagged, extra appended to the first item's nested formset
InitialItems(d, pk, del, pdel, extra) ==
    LET ids == Ascending(ItemsOf(d, pk))
    IN  [i \in DOMAIN ids |->
            InitialItem(d, ids[i], del,
                        InitialPhotos(ItemPhotosOf(d, ids[i]), pdel)
                            \o (IF i = 1 THEN extra ELSE <<>>))]

\* submissions of the update form of visit pk
UpdateForms(d, pk) ==
    LET ps == PhotosOf(d, pk)
        is == ItemsOf(d, pk)
        keepP == InitialPhotos(ps, {})
        keepI == InitialItems(d, pk, {}, {}, <<>>)
        ips == UNION {ItemPhotosOf(d, i) : i \in is}
    IN  {FormA(f, keepP, keepI) : f \in {GoodFields} \cup FieldVariants \cup ForgedFields}
        \cup {FormA(VisitFields("4", None, "n"), InitialPhotos(ps, ps), keepI)}
        \cup {FormA(GoodFields, InitialPhotos(ps, del) \o NewPhotos(n), keepI) :
                del \in {First(ps), ps}, n \in 0..1}
        \cup {FormA(GoodFields, keepP \o ex, keepI) : ex \in {<<NewPhoto>>, <<NoImagePhoto>>}}
        \cup {FormA(GoodFields, keepP, InitialItems(d, pk, del, pdel, ex)) :
                del \in {{}, First(is)}, pdel \in {{}, First(ips)},
                ex \in {<<>>, <<NewPhoto>>, <<NoImagePhoto>>}}
        \cup {FormA(GoodFields, keepP, keepI \o <<it>>) :
                it \in {NewItem(<<>>), NewItem(<<NewPhoto>>), NewItem(<<NoImagePhoto>>),
                        [NewItem(<<>>) EXCEPT !.name = ""],
                        [NewItem(<<>>) EXCEPT !.DELETE = TRUE]}}

PhotoEntry == [file |-> TRUE, caption |-> "cap"]
PhotoEntries(n) == [i \in 1..n |-> PhotoEntry]
ItemEntry(photos) ==
    [name |-> "latte", price |-> "5", rating |-> "4", description |-> "", photos |-> photos]
ItemEntries(shape) == [i \in DOMAIN shape |-> ItemEntry(PhotoEntries(shape[i]))]

RequestB(fields, text, photos, items) ==
    [date |-> fields.date, rating |-> fields.rating, amount |-> fields.amount,
     notes |-> fields.notes, profile |-> fields.profile, cafe |-> fields.cafe,
     dynamic_data |-> text, doc |-> [visitPhotos |-> photos, favoriteItems |-> items]]

\* requests of LogCafeVisitView: the same shapes, then a missing, empty or
\* malformed dynamic_data, unresolved files, missing keys, a nameless item
LogRequests ==
    {RequestB(GoodFields, WellFormedJson, PhotoEntries(n), <<>>) : n \in 0..MaxPhotoForms}
    \cup {RequestB(GoodFields, WellFormedJson, PhotoEntries(n), ItemEntries(sh)) :
            n \in 0..1, sh \in ItemShapes}
    \cup {RequestB(f, WellFormedJson, PhotoEntries(1), ItemEntries(<<1>>)) : f \in FieldVariants}
    \cup {RequestB(f, WellFormedJson, <<>>, <<>>) : f \in ForgedFields}
    \cup {RequestB(GoodFields, text, PhotoEntries(1), ItemEntries(<<1>>)) :
            text \in {None, "", "{not json"}}
    \cup {RequestB(GoodFields, WellFormedJson, ps, ItemEntries(<<1>>)) :
            ps \in {<<PhotoEntry, [PhotoEntry EXCEPT !.file = FALSE]>>,
                    <<PhotoEntry, [PhotoEntry EXCEPT !.caption = None]>>}}
    \cup {RequestB(GoodFields, WellFormedJson, PhotoEntries(1), is) :
            is \in {<<ItemEntry(PhotoEntries(1)), [ItemEntry(PhotoEntries(1)) EXCEPT !.name = ""]>>,
                    <<[ItemEntry(PhotoEntries(1)) EXCEPT !.name = None], ItemEntry(<<>>)>>,
                    <<[ItemEntry(PhotoEntries(2)) EXCEPT !.name = None, !.price = None],
                      ItemEntry(PhotoEntries(1))>>,
                    <<ItemEntry(PhotoEntries(1)), [ItemEntry(<<>>) EXCEPT !.price = None]>>,
                    <<ItemEntry(<<PhotoEntry, [PhotoEntry EXCEPT !.caption = None]>>)>>,
                    <<ItemEntry(<<[PhotoEntry EXCEPT !.file = FALSE], PhotoEntry>>)>>}}

(***************************************************************************)
(* The sticker endpoints.  A request body is                               *)
(* [json, visit_id, sticker_type, x, y, rotation, scale, sticker_id]: json *)
(* is FALSE when the body is not valid JSON, an id of 0 and a value of     *)
(* None stand for an absent key, "null" for a JSON null, "abc" for a       *)
(* string that is not a number.                                            *)
(***************************************************************************)
\* An image looked up in the StickerType rows the store started with.
StickerTypeImageSeeded(d, n) == SeedTypeImages[n]

\* StickerType.image of the type named n
StickerTypeImage(d, n) == d.typeImages[n]

\* the file a StickerType gets when its image is replaced
ReplacedImage(n) == IF n = "heart" THEN "sticker_options/heart_2.png"
                    ELSE "sticker_options/star_2.png"

\* sticker_type.image = <new file>; sticker_type.save()
ReplaceTypeImage(d, n) == [d EXCEPT !.typeImages[n] = ReplacedImage(n)]

FloatTexts == {"-1", "2", "3", "4", "5", "6", "10", "20"}

\* float(v) raises: TypeError for None, ValueError for a non-numeric string
FloatRaises(v) == v \notin FloatTexts

\* A default of zero for every absent value.
PlaceValueZero(v, default) == IF v = None THEN 0 ELSE Float(v)

\* float(data.get(key, default)) of PlaceStickerView.post
PlaceValue(v, default) == IF v = None THEN default ELSE Float(v)

\* POST /sticker/place/: a body that is not JSON raises inside the try, and
\* the handler of `except Exception` then raises on its own use of `data`,
\* which was never bound; every other exception is answered 400
PlaceSticker(d, actor, in) ==
    IF ~in.json THEN Response(d, 500)
    ELSE IF \E v \in {in.x, in.y, in.rotation, in.scale} : v # None /\ FloatRaises(v)
         THEN Response(d, 400)
    ELSE IF in.visit_id \notin DOMAIN d.visits THEN Response(d, 400)
    ELSE IF in.sticker_type \notin StickerTypes THEN Response(d, 400)
    ELSE LET k == d.seqSticker + 1
             row == [visit |-> in.visit_id, type |-> in.sticker_type,
                     x |-> PlaceValue(in.x, 0), y |-> PlaceValue(in.y, 0),
                     rotation |-> PlaceValue(in.rotation, 0),
                     scale |-> PlaceValue(in.scale, 1),
                     image |-> StickerTypeImage(d, in.sticker_type)]
         IN  [db |-> [d EXCEPT !.stickers = Extend(@, k, row), !.seqSticker = k],
              status |-> 200, n |-> 1, new |-> k]

\* An assignment that also clears the image.
StickerAssignedClearsImage(row, in) ==
    [row EXCEPT !.x = Float(in.x), !.y = Float(in.y), !.rotation = Float(in.rotation),
                !.scale = Float(in.scale), !.image = None]

\* sticker.x_position = float(data.get("x")) ... sticker.scale = float(...)
StickerAssigned(row, in) ==
    [row EXCEPT !.x = Float(in.x), !.y = Float(in.y), !.rotation = Float(in.rotation),
                !.scale = Float(in.scale)]

\* A rejected update that has stored the fields before the bad one.
UpdateRejectedPartial(d, pk, in) ==
    LET x == IF FloatRaises(in.x) THEN d.stickers[pk].x ELSE Float(in.x)
        y == IF FloatRaises(in.x) \/ FloatRaises(in.y) THEN d.stickers[pk].y ELSE Float(in.y)
    IN  [d EXCEPT !.stickers[pk].x = x, !.stickers[pk].y = y]

\* a float() of UpdateStickerView.post raised: sticker.save() is not reached
\* and the assignments made so far die with the instance
UpdateRejected(d, pk, in) == d

\* UpdateStickerView.post up to sticker.save(): the response when it ends
\* there, or done = FALSE and the row it read
UpdateStickerRead(d, in) ==
    IF ~in.json THEN [done |-> TRUE, r |-> Response(d, 500)]
    ELSE IF in.sticker_id \notin DOMAIN d.stickers THEN [done |-> TRUE, r |-> Response(d, 400)]
    ELSE IF \E v \in {in.x, in.y, in.rotation, in.scale} : FloatRaises(v)
         THEN [done |-> TRUE, r |-> Response(UpdateRejected(d, in.sticker_id, in), 400)]
    ELSE [done |-> FALSE, read |-> d.stickers[in.sticker_id]]

\* A save that writes only the fields the request changed.
SaveStickerChangedFields(d, q) ==
    IF q.pk \notin DOMAIN d.stickers THEN Response(d, 400)
    ELSE LET new == StickerAssigned(q.read, q.input)
             old == d.stickers[q.pk]
             row == [old EXCEPT !.x = IF new.x # q.read.x THEN new.x ELSE @,
                                !.y = IF new.y # q.read.y THEN new.y ELSE @,
                                !.rotation = IF new.rotation # q.read.rotation
                                             THEN new.rotation ELSE @,
                                !.scale = IF new.scale # q.read.scale THEN new.scale ELSE @]
         IN  [db |-> [d EXCEPT !.stickers[q.pk] = row], status |-> 200, n |-> 1, new |-> q.pk]

\* sticker.save() of request q: Model.save() issues an UPDATE of every
\* column for the primary key and, when no row matched, an INSERT of the
\* instance; the INSERT raises IntegrityError when the Visit is gone
SaveSticker(d, q) ==
    LET row == StickerAssigned(q.read, q.input)
    IN  IF q.pk \in DOMAIN d.stickers
        THEN [db |-> [d EXCEPT !.stickers[q.pk] = row], status |-> 200, n |-> 1, new |-> q.pk]
        ELSE IF row.visit \in DOMAIN d.visits
             THEN [db |-> [d EXCEPT !.stickers = Extend(@, q.pk, row)],
                   status |-> 200, n |-> 1, new |-> q.pk]
             ELSE Response(d, 400)

\* StickerDeleteView.post up to sticker.delete()
DeleteStickerRead(d, in) ==
    IF ~in.json THEN [done |-> TRUE, r |-> Response(d, 400)]
    ELSE IF in.sticker_id = 0 THEN [done |-> TRUE, r |-> Response(d, 400)]
    ELSE IF in.sticker_id \notin DOMAIN d.stickers THEN [done |-> TRUE, r |-> Response(d, 500)]
    ELSE [done |-> FALSE, read |-> d.stickers[in.sticker_id]]

\* A delete that takes the other stickers of the visit with it.
DeleteStickerOfVisit(d, q) ==
    [db |-> [d EXCEPT !.stickers = Restrict(@, (DOMAIN @) \ StickersOf(d, q.read.visit))],
     status |-> 200, n |-> 1, new |-> 0]

\* sticker.delete() of request q: DELETE of the primary key, then success
DeleteSticker(d, q) ==
    [db |-> [d EXCEPT !.stickers = Restrict(@, (DOMAIN @) \ {q.pk})],
     status |-> 200, n |-> 1, new |-> 0]

(***************************************************************************)
(* The wishlist endpoints.  A Wish row is [profile, cafe, visited]; the    *)
(* table has unique_together = ('profile', 'cafe'), which the database     *)
(* enforces on INSERT, and visited has default False.  A cafe form is      *)
(* [name, address, add_to_wishlist].                                       *)
(***************************************************************************)

\* a new CafeWish row
WishRow(profile, cafe) == [profile |-> profile, cafe |-> cafe, visited |-> FALSE]

WishesOf(d, profile, cafe) ==
    {w \in DOMAIN d.wishes : d.wishes[w].profile = profile /\ d.wishes[w].cafe = cafe}

\* An INSERT into a table without the uniqueness constraint.
InsertWishUnchecked(t, profile, cafe) ==
    IF ~t.ok THEN t
    ELSE LET k == t.db.seqWish + 1
         IN  [t EXCEPT !.db.wishes = Extend(@, k, WishRow(profile, cafe)),
                       !.db.seqWish = k, !.n = @ + 1]

\* CafeWish.objects.create: IntegrityError when the pair is already stored
InsertWish(t, profile, cafe) ==
    IF ~t.ok THEN t
    ELSE IF WishesOf(t.db, profile, cafe) # {} THEN Raise(t)
         ELSE LET k == t.db.seqWish + 1
              IN  [t EXCEPT !.db.wishes = Extend(@, k, WishRow(profile, cafe)),
                            !.db.seqWish = k, !.n = @ + 1]

\* primary keys of the Cafe rows created since the start, in order
NewCafeIds == <<"c3", "c4", "c5">>

\* Cafe.save() of a new row
InsertCafe(t) ==
    IF ~t.ok THEN t
    ELSE [t EXCEPT !.db.cafes = @ \cup {NewCafeIds[Cardinality(@) + 1]}, !.n = @ + 1]

\* the Cafe row that InsertCafe added to store d
CreatedCafe(d) == NewCafeIds[Cardinality(d.cafes)]

\* CafeForm.is_valid(): name and address are required
CafeFormValid(f) == ~Blank(f.name) /\ ~Blank(f.address)

\* An add that does not look for the pair first: its INSERT of a stored
\* pair raises.
AddToWishlistCheckNoLookup(d, actor, cafe_pk) ==
    IF ~CafeExists(d, cafe_pk) THEN [done |-> TRUE, r |-> Response(d, 404)]
    ELSE IF WishesOf(d, actor, cafe_pk) # {} THEN [done |-> TRUE, r |-> Response(d, 500)]
    ELSE [done |-> FALSE]

\* AddToWishlistView.post up to the existence check: the response when it
\* ends there (unknown cafe, or pair already on the list), or done = FALSE
AddToWishlistCheck(d, actor, cafe_pk) ==
    IF ~CafeExists(d, cafe_pk) THEN [done |-> TRUE, r |-> Response(d, 404)]
    ELSE IF WishesOf(d, actor, cafe_pk) # {} THEN [done |-> TRUE, r |-> Response(d, 302)]
    ELSE [done |-> FALSE]

\* CafeWish.objects.create of AddToWishlistView.post: nothing catches its
\* IntegrityError
AddToWishlistCreate(d, q) ==
    LET t == InsertWish(Begin(d), q.actor, q.cafe)
    IN  [db |-> t.db, status |-> IF t.ok THEN 302 ELSE 500, n |-> t.n, new |-> t.db.seqWish]

\* AddWishlistView.post, branch cafe_choice, up to the existence check: an
\* empty choice and a choice that is no Cafe re-render the page (200)
SelectCafeCheck(d, actor, choice) ==
    IF Blank(choice) THEN [done |-> TRUE, r |-> Response(d, 200)]
    ELSE IF ~CafeExists(d, choice) THEN [done |-> TRUE, r |-> Response(d, 200)]
    ELSE IF WishesOf(d, actor, choice) # {} THEN [done |-> TRUE, r |-> Response(d, 302)]
    ELSE [done |-> FALSE]

\* CafeWish.objects.create of that branch: `except Exception` turns its
\* IntegrityError into an error message on the re-rendered page (200)
SelectCafeCreate(d, q) ==
    LET t == InsertWish(Begin(d), q.actor, q.cafe)
    IN  [db |-> t.db, status |-> IF t.ok THEN 302 ELSE 200, n |-> t.n, new |-> t.db.seqWish]

\* AddWishlistView.post, branch new_cafe_submit: the Cafe and its Wish in
\* one atomic block
NewCafeWithWish(d, actor, f) ==
    IF ~CafeFormValid(f) THEN Response(d, 200)
    ELSE LET t1 == InsertCafe(Begin(d))
             t2 == IF f.add_to_wishlist THEN InsertWish(t1, actor, CreatedCafe(t1.db)) ELSE t1
         IN  [db |-> Atomic(d, t2), status |-> IF t2.ok THEN 302 ELSE 500,
              n |-> t2.n, new |-> 0]

\* CafeCreateView.form_valid: the Cafe, then get_or_create of the Wish
CafeCreate(d, actor, f) ==
    IF ~CafeFormValid(f) THEN Response(d, 200)
    ELSE LET t1 == InsertCafe(Begin(d))
             c == CreatedCafe(t1.db)
             t2 == IF f.add_to_wishlist /\ WishesOf(t1.db, actor, c) = {}
                   THEN InsertWish(t1, actor, c) ELSE t1
         IN  [db |-> t2.db, status |-> 302, n |-> t2.n, new |-> 0]

\* RemoveFromWishlistView.post: CafeWish.objects.get and delete()
RemoveFromWishlist(d, actor, cafe_pk) ==
    IF ~CafeExists(d, cafe_pk) THEN Response(d, 404)
    ELSE LET ws == WishesOf(d, actor, cafe_pk)
         IN  [db |-> [d EXCEPT !.wishes = Restrict(@, (DOMAIN @) \ ws)],
              status |-> 302, n |-> Cardinality(ws), new |-> 0]

(***************************************************************************)
(* "This profile has visited this cafe", as the pages compute it for the   *)
(* Wish with key w.                                                        *)
(***************************************************************************)
\* An annotation that reads the stored flag of the Wish row.
WishlistHasVisitedStored(d, profile, w) == d.wishes[w].visited

\* WishlistView.get_context_data: the ids of the cafes the profile has
\* visited, as a set, and `cafe.pk in visited_set` for each wish
WishlistHasVisited(d, profile, w) ==
    LET visited_set == {d.visits[v].cafe : v \in {u \in DOMAIN d.visits :
                                                    d.visits[u].profile = profile}}
    IN  d.wishes[w].cafe \in visited_set

\* the wishes of WishlistView.get_queryset with their annotation
WishlistPage(d, profile) ==
    [w \in {u \in DOMAIN d.wishes : d.wishes[u].profile = profile} |->
        WishlistHasVisited(d, profile, w)]

\* An Exists subquery without the profile filter.
ProfileIsVisitedByAnyone(d, profile, w) ==
    \E v \in DOMAIN d.visits : d.visits[v].cafe = d.wishes[w].cafe

\* ShowCafeProfileView.get_context_data: is_visited = Exists(Visit rows with
\* cafe = OuterRef('cafe') and profile = profile)
ProfileIsVisited(d, profile, w) ==
    \E v \in DOMAIN d.visits :
        d.visits[v].cafe = d.wishes[w].cafe /\ d.visits[v].profile = profile

\* the annotated wishlist of the profile page
ProfilePage(d, profile) ==
    [w \in {u \in DOMAIN d.wishes : d.wishes[u].profile = profile} |->
        ProfileIsVisited(d, profile, w)]

\* CafeDetailView.get_context_data: has_visited = visits.exists() for the
\* Visit rows of this cafe and the profile of the user
CafeHasVisited(d, profile, cafe) ==
    {v \in DOMAIN d.visits : d.visits[v].cafe = cafe /\ d.visits[v].profile = profile} # {}

\* CafeWish.has_been_visited
HasBeenVisited(d, w) ==
    \E v \in DOMAIN d.visits :
        d.visits[v].profile = d.wishes[w].profile /\ d.visits[v].cafe = d.wishes[w].cafe

(***************************************************************************)
(* The state machine: served counts the requests answered so far, last is  *)
(* the last request with its response.                                     *)
(***************************************************************************)
NoRequest ==
    [op |-> "init", actor |-> None, cafe |-> None, pk |-> 0, input |-> <<>>,
     status |-> 0, n |-> 0, new |-> 0, stale |-> FALSE]

Init ==
    /\ db = EmptyDb
    /\ served = 0
    /\ last = NoRequest
    /\ pending = EmptyFn
    /\ deleted = {}

\* the answer r to a request that ran from its first statement to its last
\* with no other request in between
Record(op, actor, cafe, pk, in, r) ==
    /\ served' = served + 1
    /\ db' = r.db
    /\ last' = [op |-> op, actor |-> actor, cafe |-> cafe, pk |-> pk, input |-> in,
                status |-> r.status, n |-> r.n, new |-> r.new, stale |-> FALSE]
    /\ UNCHANGED <<pending, deleted>>

\* the requests every profile sends to every route; the others are sent
\* by p1 to c1
BaseForms == {FormA(GoodFields, NewPhotos(1), NewItems(<<1>>))}
                 \cup {FormA(f, <<>>, <<>>) : f \in ForgedFields}

BaseRequestsB ==
    {RequestB(GoodFields, text, PhotoEntries(1), ItemEntries(<<1>>)) :
        text \in {WellFormedJson, None, "", "{not json"}}
    \cup {RequestB(f, WellFormedJson, <<>>, <<>>) : f \in ForgedFields}

\* primary keys a request may name: those handed out so far and the next
VisitKeys == 1..(db.seqVisit + 1)
ItemKeys == 1..(db.seqItem + 1)

CreateVisit ==
    /\ served < MaxRequests
    /\ \E actor \in Profiles, cafe_pk \in Cafes \cup {NoCafe}, in \in CreateForms :
           /\ (actor = "p1" /\ cafe_pk = "c1") \/ in \in BaseForms
           /\ Record("create", actor, cafe_pk, 0, in, VisitCreate(db, actor, cafe_pk, in))

UpdateVisitRequest ==
    /\ served < MaxRequests
    /\ \E actor \in Profiles, pk \in VisitKeys :
           \E in \in (IF pk \in DOMAIN db.visits THEN UpdateForms(db, pk)
                      ELSE {FormA(GoodFields, <<>>, <<>>)}) :
               Record("update", actor, None, pk, in, VisitUpdate(db, actor, pk, in))

DeleteVisitRequest ==
    /\ served < MaxRequests
    /\ \E actor \in Profiles, pk \in VisitKeys :
           Record("delete", actor, None, pk, <<>>, VisitDelete(db, actor, pk))

LogVisit ==
    /\ served < MaxRequests
    /\ \E actor \in Profiles, cafe_pk \in Cafes \cup {NoCafe}, in \in LogRequests :
           /\ (actor = "p1" /\ cafe_pk = "c1") \/ in \in BaseRequestsB
           /\ Record("log", actor, cafe_pk, 0, in, LogCafeVisit(db, actor, cafe_pk, in))

ShowVisit ==
    /\ served < MaxRequests
    /\ \E actor \in Profiles, pk \in VisitKeys :
           Record("detail", actor, None, pk, <<>>, VisitDetail(db, actor, pk))

ShowFavoriteItem ==
    /\ served < MaxRequests
    /\ \E actor \in Profiles, pk \in ItemKeys :
           Record("item_detail", actor, None, pk, <<>>, FavoriteItemDetail(db, actor, pk))

Next ==
    \/ CreateVisit
    \/ UpdateVisitRequest
    \/ DeleteVisitRequest
    \/ LogVisit
    \/ ShowVisit
    \/ ShowFavoriteItem

Spec == Init /\ [][Next]_vars

(***************************************************************************)
(* The sticker requests.  Update and Delete are two steps each, the read   *)
(* (get_object_or_404) and the write (save, delete): requests of other     *)
(* workers run between them.  The store starts with a Visit of p1, with or *)
(* without stickers on it.                                                 *)
(***************************************************************************)
MaxStickerRequests == 3   \* sticker requests begun in one behaviour

SeedVisit ==
    [EmptyDb EXCEPT !.visits = Extend(EmptyFn, 1, [profile |-> "p1", cafe |-> "c1", rating |-> 4]),
                    !.seqVisit = 1]

SeedSticker(type) ==
    [visit |-> 1, type |-> type, x |-> 10, y |-> 20, rotation |-> 0, scale |-> 1,
     image |-> StickerTypeImage(EmptyDb, type)]

SeedStickers ==
    [SeedVisit EXCEPT !.stickers = Extend(Extend(EmptyFn, 1, SeedSticker("heart")),
                                          2, SeedSticker("star")),
                      !.seqSticker = 2]

InitStickers ==
    /\ db \in {SeedVisit, SeedStickers}
    /\ served = 0
    /\ last = NoRequest
    /\ pending = EmptyFn
    /\ deleted = {}

\* a client that is not logged in
Anonymous == "anonymous"

StickerBody(visit_id, type, vals, sticker_id) ==
    [json |-> TRUE, visit_id |-> visit_id, sticker_type |-> type, x |-> vals[1], y |-> vals[2],
     rotation |-> vals[3], scale |-> vals[4], sticker_id |-> sticker_id]

NotJson == [StickerBody(0, None, <<None, None, None, None>>, 0) EXCEPT !.json = FALSE]

\* complete sets of the four numbers, and sets with an absent, null or
\* non-numeric member
FullValues == {<<"2", "3", "4", "5">>, <<"10", "20", "3", "2">>}
PartValues == {<<"10", "20", None, None>>, <<None, None, None, None>>, <<"2", "3", None, "5">>,
               <<None, "3", "4", "5">>}
BadValues == {<<"2", "3", "4", "abc">>, <<"2", "null", "4", "5">>}

PlaceBodies ==
    {StickerBody(v, ty, <<"10", "20", None, None>>, 0) :
        v \in VisitKeys, ty \in StickerTypes \cup {"ghost"}}
    \cup {StickerBody(1, "star", vals, 0) : vals \in FullValues \cup PartValues \cup BadValues}
    \cup {NotJson}

StickerKeys == 0..(db.seqSticker + 1)

UpdateBodies ==
    {StickerBody(0, None, vals, k) : vals \in FullValues, k \in StickerKeys}
    \cup {StickerBody(0, None, vals, 1) : vals \in PartValues \cup BadValues}
    \cup {NotJson}

DeleteBodies ==
    {StickerBody(0, None, <<None, None, None, None>>, k) : k \in StickerKeys} \cup {NotJson}

\* a request that has read its row waits for its write
Suspend(op, actor, in, row) ==
    /\ served' = served + 1
    /\ pending' = Extend(pending, served + 1,
                         [op |-> op, actor |-> actor, pk |-> in.sticker_id, input |-> in,
                          read |-> row])
    /\ UNCHANGED <<db, last, deleted>>

\* the write of pending request k, answered r
Resume(k, r) ==
    LET q == pending[k]
    IN  /\ db' = r.db
        /\ last' = [op |-> q.op, actor |-> q.actor, cafe |-> None, pk |-> q.pk,
                    input |-> q.input, status |-> r.status, n |-> r.n, new |-> r.new,
                    stale |-> q.pk \notin DOMAIN db.stickers \/ db.stickers[q.pk] # q.read]
        /\ pending' = Restrict(pending, (DOMAIN pending) \ {k})
        /\ UNCHANGED served

PlaceStickerRequest ==
    /\ served < MaxStickerRequests
    /\ \E actor \in Profiles, in \in PlaceBodies :
           /\ actor = "p1" \/ in.x = "10"
           /\ Record("sticker_place", actor, None, in.visit_id, in, PlaceSticker(db, actor, in))

\* the update and delete routes ask for no login: p1 sends every body, p2
\* and a client that is not logged in send one that names Sticker 1
UpdateStickerBegin ==
    /\ served < MaxStickerRequests
    /\ \E actor \in Profiles \cup {Anonymous}, in \in UpdateBodies :
           /\ actor = "p1" \/ in = StickerBody(0, None, <<"2", "3", "4", "5">>, 1)
           /\ LET o == UpdateStickerRead(db, in)
              IN  IF o.done THEN Record("sticker_update", actor, None, in.sticker_id, in, o.r)
                  ELSE Suspend("sticker_update", actor, in, o.read)

UpdateStickerSave ==
    \E k \in DOMAIN pending :
        /\ pending[k].op = "sticker_update"
        /\ Resume(k, SaveSticker(db, pending[k]))
        /\ UNCHANGED deleted

DeleteStickerBegin ==
    /\ served < MaxStickerRequests
    /\ \E actor \in Profiles \cup {Anonymous}, in \in DeleteBodies :
           /\ actor = "p1" \/ (in.json /\ in.sticker_id = 1)
           /\ LET o == DeleteStickerRead(db, in)
              IN  IF o.done THEN Record("sticker_delete", actor, None, in.sticker_id, in, o.r)
                  ELSE Suspend("sticker_delete", actor, in, o.read)

DeleteStickerCommit ==
    \E k \in DOMAIN pending :
        /\ pending[k].op = "sticker_delete"
        /\ Resume(k, DeleteSticker(db, pending[k]))
        /\ deleted' = deleted \cup {pending[k].pk}

NextStickers ==
    \/ PlaceStickerRequest
    \/ UpdateStickerBegin
    \/ UpdateStickerSave
    \/ DeleteStickerBegin
    \/ DeleteStickerCommit
    \/ DeleteVisitRequest

SpecStickers == InitStickers /\ [][NextStickers]_vars

(***************************************************************************)
(* The wishlist requests.  The two add paths that check for the pair and   *)
(* then create it are two steps each: requests of other workers run        *)
(* between the check and the create.  The store starts empty or with the   *)
(* Wish (p1, c1).                                                          *)
(***************************************************************************)
MaxWishRequests == 3   \* wishlist requests begun in one behaviour
MaxNewCafes == 1       \* Cafe rows created in one behaviour

SeedWish ==
    [EmptyDb EXCEPT !.wishes = Extend(EmptyFn, 1, WishRow("p1", "c1")),
                    !.seqWish = 1]

InitWishlist ==
    /\ db \in {EmptyDb, SeedWish}
    /\ served = 0
    /\ last = NoRequest
    /\ pending = EmptyFn
    /\ deleted = {}

\* cafe keys a request may name
WishCafes == Cafes \cup db.cafes \cup {NoCafe}

CafeFormOf(name, tick) == [name |-> name, address |-> "1 Main St", add_to_wishlist |-> tick]

CafeForms == {CafeFormOf("Blue Door", TRUE), CafeFormOf("Blue Door", FALSE), CafeFormOf("", TRUE)}

\* a request that found no Wish for its pair waits for its create
SuspendWish(op, actor, cafe) ==
    /\ served' = served + 1
    /\ pending' = Extend(pending, served + 1, [op |-> op, actor |-> actor, cafe |-> cafe])
    /\ UNCHANGED <<db, last, deleted>>

\* the create of pending request k, answered r
ResumeWish(k, r) ==
    LET q == pending[k]
    IN  /\ db' = r.db
        /\ last' = [op |-> q.op, actor |-> q.actor, cafe |-> q.cafe, pk |-> 0, input |-> <<>>,
                    status |-> r.status, n |-> r.n, new |-> r.new,
                    stale |-> WishesOf(db, q.actor, q.cafe) # {}]
        /\ pending' = Restrict(pending, (DOMAIN pending) \ {k})
        /\ UNCHANGED <<served, deleted>>

AddToWishlistBegin ==
    /\ served < MaxWishRequests
    /\ \E actor \in Profiles, cafe_pk \in WishCafes :
           LET o == AddToWishlistCheck(db, actor, cafe_pk)
           IN  IF o.done THEN Record("wish_add", actor, cafe_pk, 0, <<>>, o.r)
               ELSE SuspendWish("wish_add", actor, cafe_pk)

AddToWishlistFinish ==
    \E k \in DOMAIN pending :
        /\ pending[k].op = "wish_add"
        /\ ResumeWish(k, AddToWishlistCreate(db, pending[k]))

SelectCafeBegin ==
    /\ served < MaxWishRequests
    /\ \E actor \in Profiles, choice \in WishCafes \cup {""} :
           LET o == SelectCafeCheck(db, actor, choice)
           IN  IF o.done THEN Record("wish_select", actor, choice, 0, <<>>, o.r)
               ELSE SuspendWish("wish_select", actor, choice)

SelectCafeFinish ==
    \E k \in DOMAIN pending :
        /\ pending[k].op = "wish_select"
        /\ ResumeWish(k, SelectCafeCreate(db, pending[k]))

NewCafeRequest ==
    /\ served < MaxWishRequests
    /\ Cardinality(db.cafes) < MaxNewCafes
    /\ \E actor \in Profiles, f \in CafeForms :
           Record("wish_new_cafe", actor, None, 0, f, NewCafeWithWish(db, actor, f))

CafeCreateRequest ==
    /\ served < MaxWishRequests
    /\ Cardinality(db.cafes) < MaxNewCafes
    /\ \E actor \in Profiles, f \in CafeForms :
           Record("cafe_create", actor, None, 0, f, CafeCreate(db, actor, f))

RemoveWishRequest ==
    /\ served < MaxWishRequests
    /\ \E actor \in Profiles, cafe_pk \in WishCafes :
           Record("wish_remove", actor, cafe_pk, 0, <<>>, RemoveFromWishlist(db, actor, cafe_pk))

NextWishlist ==
    \/ AddToWishlistBegin
    \/ AddToWishlistFinish
    \/ SelectCafeBegin
    \/ SelectCafeFinish
    \/ NewCafeRequest
    \/ CafeCreateRequest
    \/ RemoveWishRequest

SpecWishlist == InitWishlist /\ [][NextWishlist]_vars

(***************************************************************************)
(* Visits with their photos, items and stickers, and the deletion of       *)
(* cafes by a staff user: the store starts with one Visit of p1 to c1 that *)
(* has one photo, one item with one photo, and two stickers.  Every        *)
(* request, the sticker requests included, counts against MaxRequests.     *)
(***************************************************************************)
Staff == {"staff"}

\* CafeDeleteView: test_func lets only staff through (the others are
\* redirected by handle_no_permission), then the Cafe is deleted
CafeDelete(d, actor, cafe_pk) ==
    IF actor \notin Staff THEN Response(d, 302)
    ELSE IF ~CafeExists(d, cafe_pk) THEN Response(d, 404)
    ELSE [db |-> CascadeDeleteCafe(d, cafe_pk), status |-> 302, n |-> 1, new |-> 0]

SeedIntegrity ==
    [SeedStickers EXCEPT !.photos = Extend(EmptyFn, 1, [visit |-> 1]),
                         !.items = Extend(EmptyFn, 1, [visit |-> 1]),
                         !.itemPhotos = Extend(EmptyFn, 1, [favorite_item |-> 1]),
                         !.wishes = SeedWish.wishes,
                         !.seqPhoto = 1, !.seqItem = 1, !.seqItemPhoto = 1, !.seqWish = 1]

InitIntegrity ==
    /\ db = SeedIntegrity
    /\ served = 0
    /\ last = NoRequest
    /\ pending = EmptyFn
    /\ deleted = {}

CafeDeleteRequest ==
    /\ served < MaxRequests
    /\ \E actor \in Staff \cup {"p1"}, cafe_pk \in Cafes \cup {NoCafe} :
           Record("cafe_delete", actor, cafe_pk, 0, <<>>, CafeDelete(db, actor, cafe_pk))

\* the image of the StickerType "heart" is replaced, once
ReplaceStickerTypeImage ==
    /\ \E n \in {"heart"} :
           /\ db.typeImages[n] = SeedTypeImages[n]
           /\ db' = ReplaceTypeImage(db, n)
    /\ UNCHANGED <<last, served, pending, deleted>>

NextIntegrity ==
    \/ UpdateVisitRequest
    \/ DeleteVisitRequest
    \/ CafeDeleteRequest
    \/ served < MaxRequests /\ PlaceStickerRequest
    \/ served < MaxRequests /\ UpdateStickerBegin
    \/ UpdateStickerSave
    \/ served < MaxRequests /\ DeleteStickerBegin
    \/ DeleteStickerCommit
    \/ ReplaceStickerTypeImage

SpecIntegrity == InitIntegrity /\ [][NextIntegrity]_vars

(***************************************************************************)
(* Visits and wishes together: the store starts with three Wish rows and   *)
(* a Visit of p1 to c1, and the visit requests interleave with            *)
(* the pages that show "already visited".  The pages are GET requests, so  *)
(* the input field of last keeps what the page shows.                      *)
(***************************************************************************)
SeedWishes ==
    [EmptyDb EXCEPT !.wishes = Extend(Extend(Extend(EmptyFn, 1, WishRow("p1", "c1")),
                                             2, WishRow("p1", "c2")),
                                      3, WishRow("p2", "c1")),
                    !.seqWish = 3]

SeedVisited ==
    [SeedWishes EXCEPT !.visits = SeedVisit.visits, !.seqVisit = SeedVisit.seqVisit]

InitVisited ==
    /\ db = SeedVisited
    /\ served = 0
    /\ last = NoRequest
    /\ pending = EmptyFn
    /\ deleted = {}

ShowWishlist ==
    /\ served < MaxRequests
    /\ \E actor \in Profiles :
           Record("wishlist", actor, None, 0, WishlistPage(db, actor), Response(db, 200))

ShowCafeProfile ==
    /\ served < MaxRequests
    /\ \E profile \in Profiles :
           Record("profile", profile, None, 0, ProfilePage(db, profile), Response(db, 200))

ShowCafe ==
    /\ served < MaxRequests
    /\ \E actor \in Profiles, cafe \in Cafes :
           Record("cafe", actor, cafe, 0, CafeHasVisited(db, actor, cafe), Response(db, 200))

NextVisited ==
    \/ CreateVisit
    \/ UpdateVisitRequest
    \/ DeleteVisitRequest
    \/ ShowWishlist
    \/ ShowCafeProfile
    \/ ShowCafe

SpecVisited == InitVisited /\ [][NextVisited]_vars

(***************************************************************************)
(* Properties of the visit-logging requests.                               *)
(***************************************************************************)
LoggingOps == {"create", "update", "log"}

\* the request just served ended in success
Succeeded(l) ==
    \/ l.op \in {"create", "update"} /\ l.status = 302
    \/ l.op = "log" /\ l.status = 200

\* C1: a visit-logging request (Protocol A create, Protocol A update,
\* Protocol B) that does not end in success leaves the four tables as they
\* were, whatever it wrote before it failed; one that succeeds has kept its
\* Visit
C1_AllOrNothing ==
    [][last'.op \in LoggingOps =>
          IF Succeeded(last')
          THEN last'.new \in DOMAIN db'.visits
          ELSE Rows(db') = Rows(db)]_vars

\* with a Visit in the store, a Protocol B request wrote a Visit and more
\* rows, then raised, and its Visit is not in the store
C1_Witness ==
    /\ last.op = "log"
    /\ last.status = 500
    /\ last.n >= 2
    /\ DOMAIN db.visits # {}
    /\ db.seqVisit + 1 \notin DOMAIN db.visits

\* the entries of a submitted collection: forms that carry data or name a
\* row, and are not flagged for deletion
PhotoEntriesOf(fs) ==
    {i \in DOMAIN fs : ~fs[i].DELETE /\ (fs[i].id # 0 \/ PhotoFormChanged(fs[i]))}

ItemEntriesOf(fs) == {i \in DOMAIN fs : ~fs[i].DELETE /\ ItemFormHasData(fs[i])}

\* a submission of new entries only: no blank form, no flag, no initial form
PlainSubmission(in) ==
    /\ PhotoEntriesOf(in.photos) = DOMAIN in.photos
    /\ ItemEntriesOf(in.items) = DOMAIN in.items
    /\ \A i \in DOMAIN in.photos : in.photos[i].id = 0
    /\ \A i \in DOMAIN in.items :
          /\ in.items[i].id = 0
          /\ PhotoEntriesOf(in.items[i].photos) = DOMAIN in.items[i].photos
          /\ \A j \in DOMAIN in.items[i].photos : in.items[i].photos[j].id = 0

WithinMaxima(in) ==
    /\ Cardinality(PhotoEntriesOf(in.photos)) <= VisitPhotoMaxNum
    /\ Cardinality(ItemEntriesOf(in.items)) <= FavoriteItemMaxNum
    /\ \A i \in ItemEntriesOf(in.items) :
          Cardinality(PhotoEntriesOf(in.items[i].photos)) <= ItemPhotoMaxNum

\* store e is store d with one more Visit v, to which the photos and items
\* of submission in are linked, each item with its own photos
ExactlyAdded(d, e, v, in) ==
    LET newPhotos == (DOMAIN e.photos) \ (DOMAIN d.photos)
        newItems == (DOMAIN e.items) \ (DOMAIN d.items)
        newItemPhotos == (DOMAIN e.itemPhotos) \ (DOMAIN d.itemPhotos)
        ids == Ascending(newItems)
    IN  /\ v \notin DOMAIN d.visits
        /\ DOMAIN e.visits = (DOMAIN d.visits) \cup {v}
        /\ Restrict(e.visits, DOMAIN d.visits) = d.visits
        /\ Restrict(e.photos, DOMAIN d.photos) = d.photos
        /\ Restrict(e.items, DOMAIN d.items) = d.items
        /\ Restrict(e.itemPhotos, DOMAIN d.itemPhotos) = d.itemPhotos
        /\ Cardinality(newPhotos) = Len(in.photos)
        /\ \A p \in newPhotos : e.photos[p].visit = v
        /\ Cardinality(newItems) = Len(in.items)
        /\ \A i \in newItems : e.items[i].visit = v
        /\ \A p \in newItemPhotos : e.itemPhotos[p].favorite_item \in newItems
        /\ \A k \in DOMAIN ids :
              Cardinality({p \in newItemPhotos : e.itemPhotos[p].favorite_item = ids[k]})
                  = Len(in.items[k].photos)

\* C2: a valid Protocol A create submission of N <= 5 VisitPhotos, M <= 3
\* FavoriteItems and P_i <= 2 ItemPhotos on item i adds exactly one Visit,
\* N VisitPhotos and M FavoriteItems linked to it, and P_i ItemPhotos linked
\* to item i
C2_CreateAddsExactly ==
    [][(/\ last'.op = "create"
        /\ last'.cafe \in Cafes
        /\ ProtocolAValid(last'.input, TRUE)
        /\ PlainSubmission(last'.input)
        /\ WithinMaxima(last'.input))
          => ExactlyAdded(db, db', last'.new, last'.input)]_vars

\* C3: a Protocol A submission with more entries than a collection's
\* maximum is rejected as a validation fault and persists no row
C3_OversizedRejected ==
    [][(/\ last'.op \in {"create", "update"}
        /\ last'.status # 404
        /\ ~WithinMaxima(last'.input))
          => (last'.status = 200 /\ Rows(db') = Rows(db))]_vars

\* C4: every Visit has at most 5 VisitPhotos and 3 FavoriteItems, every
\* FavoriteItem at most 2 ItemPhotos
C4_CollectionsWithinMaxima ==
    /\ \A v \in DOMAIN db.visits :
          /\ Cardinality(PhotosOf(db, v)) <= VisitPhotoMaxNum
          /\ Cardinality(ItemsOf(db, v)) <= FavoriteItemMaxNum
    /\ \A i \in DOMAIN db.items : Cardinality(ItemPhotosOf(db, i)) <= ItemPhotoMaxNum

\* a Protocol A request fails validation at some level: the Visit fields, a
\* VisitPhoto entry, a FavoriteItem entry, or a nested ItemPhoto of a
\* FavoriteItem not flagged for deletion
FailsValidation(in) ==
    \/ ~VisitFormValid(in)
    \/ ~PhotoFormSetValid(in.photos)
    \/ ~FavoriteItemFormSetValid(in.items)
    \/ \E i \in DOMAIN in.items : ~in.items[i].DELETE /\ ~PhotoFormSetValid(in.items[i].photos)

\* C5: a Protocol A request (create or update) that fails validation at any
\* level creates, changes and deletes no row of the four tables
C5_InvalidWritesNothing ==
    [][(last'.op \in {"create", "update"} /\ FailsValidation(last'.input))
          => Rows(db') = Rows(db)]_vars

\* C6: a Visit created by Protocol A or Protocol B belongs to the acting
\* user's profile and to the cafe of the route, whatever the body names
C6_CreatedVisitOwner ==
    (last.op \in {"create", "log"} /\ last.new # 0) =>
        /\ last.new \in DOMAIN db.visits
        /\ db.visits[last.new].profile = last.actor
        /\ db.visits[last.new].cafe = last.cafe

\* a Visit was created by a request whose body names another profile and
\* another cafe
C6_Witness ==
    /\ last.op \in {"create", "log"}
    /\ last.new \in DOMAIN db.visits
    /\ last.input.profile \in Profiles \ {last.actor}
    /\ last.input.cafe \in Cafes \ {last.cafe}

\* C7: an update or delete request for a Visit issued by a user whose
\* profile does not own it changes nothing in the store
C7_OnlyOwnerChanges ==
    [][(/\ last'.op \in {"update", "delete"}
        /\ last'.pk \in DOMAIN db.visits
        /\ db.visits[last'.pk].profile # last'.actor)
          => Rows(db') = Rows(db)]_vars

\* C8: the detail view of a Visit, and of a FavoriteItem of a Visit, is
\* returned only to the owner of the Visit; any other user gets NotFound
C8_DetailOwnerOnly ==
    /\ last.op = "detail" =>
          (last.status = 200 <=>
              (last.pk \in DOMAIN db.visits /\ db.visits[last.pk].profile = last.actor))
    /\ last.op = "item_detail" =>
          (last.status = 200 <=>
              (/\ last.pk \in DOMAIN db.items
               /\ db.visits[db.items[last.pk].visit].profile = last.actor))
    /\ last.op \in {"detail", "item_detail"} => last.status \in {200, 404}

\* a user asked for the detail view of another profile's Visit and got 404
C8_Witness ==
    /\ last.op = "detail"
    /\ last.pk \in DOMAIN db.visits
    /\ db.visits[last.pk].profile # last.actor
    /\ last.status = 404

\* the Protocol B request that carries the same input as a plain Protocol A
\* submission
AsProtocolB(in) ==
    [date |-> in.date, rating |-> in.rating, amount |-> in.amount, notes |-> in.notes,
     profile |-> in.profile, cafe |-> in.cafe, dynamic_data |-> WellFormedJson,
     doc |-> [visitPhotos |-> [i \in DOMAIN in.photos |->
                                  [file |-> in.photos[i].image, caption |-> in.photos[i].caption]],
              favoriteItems |-> [i \in DOMAIN in.items |->
                                  [name |-> in.items[i].name, price |-> in.items[i].price,
                                   rating |-> in.items[i].rating,
                                   description |-> in.items[i].description,
                                   photos |-> [j \in DOMAIN in.items[i].photos |->
                                                 [file |-> in.items[i].photos[j].image,
                                                  caption |-> in.items[i].photos[j].caption]]]]]]

\* C9: for a create input that both protocols can express, Protocol A and
\* Protocol B leave the same rows in the store
C9_ProtocolsAgree ==
    [][(last'.op = "create" /\ last'.cafe \in Cafes /\ PlainSubmission(last'.input))
          => Rows(db') = Rows(LogCafeVisit(db, last'.actor, last'.cafe,
                                           AsProtocolB(last'.input)).db)]_vars

NoPayload(in) == Blank(in.dynamic_data) \/ in.dynamic_data # WellFormedJson

Named(es) == {i \in DOMAIN es : ~Blank(es[i].name)}
Filed(es) == {i \in DOMAIN es : es[i].file}

\* a Protocol B request with a nameless favoriteItems entry in which the
\* Visit fields, the photo entries and the named entries carry every value
\* their rows need
SoundButNameless(in) ==
    /\ in.dynamic_data = WellFormedJson
    /\ in.date # None /\ in.rating # None /\ in.amount # None /\ in.notes # None
    /\ \A i \in Filed(in.doc.visitPhotos) : in.doc.visitPhotos[i].caption # None
    /\ \A i \in Named(in.doc.favoriteItems) :
          LET e == in.doc.favoriteItems[i]
          IN  /\ e.price # None /\ e.rating # None /\ e.description # None
              /\ \A j \in Filed(e.photos) : e.photos[j].caption # None
    /\ Named(in.doc.favoriteItems) # DOMAIN in.doc.favoriteItems

\* store e is store d with one more Visit v, its filed photo entries, one
\* FavoriteItem per named entry and one ItemPhoto per filed photo entry of
\* a named entry; nothing for the nameless entries
OnlyNamedAdded(d, e, v, in) ==
    LET newPhotos == (DOMAIN e.photos) \ (DOMAIN d.photos)
        newItems == (DOMAIN e.items) \ (DOMAIN d.items)
        newItemPhotos == (DOMAIN e.itemPhotos) \ (DOMAIN d.itemPhotos)
        ids == Ascending(newItems)
        named == Ascending(Named(in.doc.favoriteItems))
    IN  /\ v \notin DOMAIN d.visits
        /\ DOMAIN e.visits = (DOMAIN d.visits) \cup {v}
        /\ Cardinality(newPhotos) = Cardinality(Filed(in.doc.visitPhotos))
        /\ \A p \in newPhotos : e.photos[p].visit = v
        /\ Len(ids) = Len(named)
        /\ \A i \in newItems : e.items[i].visit = v
        /\ \A p \in newItemPhotos : e.itemPhotos[p].favorite_item \in newItems
        /\ \A k \in DOMAIN ids :
              Cardinality({p \in newItemPhotos : e.itemPhotos[p].favorite_item = ids[k]})
                  = Cardinality(Filed(in.doc.favoriteItems[named[k]].photos))

\* C11: a Protocol B request with a nameless favoriteItems entry (name
\* absent or empty) succeeds; it persists the Visit, the visit photos and
\* the named items with their photos, and neither a FavoriteItem nor an
\* ItemPhoto for the nameless entry
C11_NamelessSkipped ==
    [][(last'.op = "log" /\ last'.cafe \in Cafes /\ SoundButNameless(last'.input))
          => /\ last'.status = 200
             /\ OnlyNamedAdded(db, db', last'.new, last'.input)]_vars

\* a request whose nameless entry has two photos and no price, next to a
\* named entry with one photo, has succeeded with one item and one item photo
C11_Witness ==
    /\ last.op = "log"
    /\ last.status = 200
    /\ Len(last.input.doc.favoriteItems) = 2
    /\ last.input.doc.favoriteItems[1].name = None
    /\ last.input.doc.favoriteItems[1].price = None
    /\ Len(last.input.doc.favoriteItems[1].photos) = 2
    /\ Cardinality(ItemsOf(db, last.new)) = 1
    /\ Cardinality(DOMAIN db.itemPhotos) = 1

(***************************************************************************)
(* Properties of the sticker requests.                                     *)
(***************************************************************************)
Answered == served - Cardinality(DOMAIN pending)

\* this step answers a request of operation op
Answer(op) == Answered' = Answered + 1 /\ last'.op = op

Numbers(in) == {in.x, in.y, in.rotation, in.scale}

Others(d, pk) == Restrict(d.stickers, (DOMAIN d.stickers) \ {pk})

\* the four numbers of row are those of body in, an absent one its default
HoldsValues(row, in) ==
    /\ row.x = (IF in.x = None THEN 0 ELSE Float(in.x))
    /\ row.y = (IF in.y = None THEN 0 ELSE Float(in.y))
    /\ row.rotation = (IF in.rotation = None THEN 0 ELSE Float(in.rotation))
    /\ row.scale = (IF in.scale = None THEN 1 ELSE Float(in.scale))

StickerFault(d, op, in) ==
    \/ ~in.json
    \/ /\ op = "sticker_place"
       /\ \/ in.visit_id \notin DOMAIN d.visits
          \/ in.sticker_type \notin StickerTypes
          \/ \E v \in Numbers(in) : v # None /\ FloatRaises(v)
    \/ /\ op = "sticker_update"
       /\ \/ in.sticker_id \notin DOMAIN d.stickers
          \/ \E v \in Numbers(in) : FloatRaises(v)

\* C13: a Place or Update request with an unknown visit id, an unknown
\* sticker type, an unknown sticker id, a non-numeric number or a body that
\* is not valid JSON is answered 400 and changes no Sticker
C13_StickerFaultIs400 ==
    [][\A op \in {"sticker_place", "sticker_update"} :
          (Answer(op) /\ StickerFault(db, op, last'.input))
              => (last'.status = 400 /\ db'.stickers = db.stickers)]_vars

\* C14: an Update request in which one of x, y, rotation, scale is missing
\* or non-numeric is rejected and changes no field of any Sticker
C14_BadUpdateChangesNothing ==
    [][(/\ Answer("sticker_update")
        /\ last'.input.json
        /\ \E v \in Numbers(last'.input) : FloatRaises(v))
          => (last'.status = 400 /\ db'.stickers = db.stickers)]_vars

\* an Update of Sticker 1 with x = 2, y = 3 and no rotation was rejected, and
\* the Sticker still has x = 10, y = 20
C14_Witness ==
    /\ last.op = "sticker_update"
    /\ last.status = 400
    /\ last.pk = 1
    /\ last.input.x = "2" /\ last.input.y = "3" /\ last.input.rotation = None
    /\ 1 \in DOMAIN db.stickers
    /\ db.stickers[1].x = 10 /\ db.stickers[1].y = 20

\* C15: a successful Update leaves the target with the four supplied
\* numbers, keeps its image, type and visit, and changes no other Sticker
C15_UpdateFrame ==
    [][(Answer("sticker_update") /\ last'.status = 200)
          => /\ last'.pk \in DOMAIN db'.stickers
             /\ HoldsValues(db'.stickers[last'.pk], last'.input)
             /\ last'.pk \in DOMAIN db.stickers
                   => /\ db'.stickers[last'.pk].image = db.stickers[last'.pk].image
                      /\ db'.stickers[last'.pk].type = db.stickers[last'.pk].type
                      /\ db'.stickers[last'.pk].visit = db.stickers[last'.pk].visit
             /\ Others(db', last'.pk) = Others(db, last'.pk)]_vars

\* Sticker 1 was updated to (2, 3, 4, 5) and kept its image; Sticker 2 is as
\* it was placed
C15_Witness ==
    /\ last.op = "sticker_update"
    /\ last.status = 200
    /\ last.pk = 1
    /\ ~last.stale
    /\ {1, 2} \subseteq DOMAIN db.stickers
    /\ db.stickers[1] = [SeedSticker("heart") EXCEPT !.x = 2, !.y = 3, !.rotation = 4, !.scale = 5]
    /\ db.stickers[2] = SeedSticker("star")

C17_DeletedIsTerminal == deleted \cap DOMAIN db.stickers = {}

\* C18: an Update that reaches its save while the row exists reports
\* success, whatever was written since it read the row, and leaves the row
\* with its own four numbers
C18_LastWriteWins ==
    [][(/\ Answer("sticker_update")
        /\ DOMAIN pending' # DOMAIN pending
        /\ last'.pk \in DOMAIN db.stickers)
          => /\ last'.status = 200
             /\ HoldsValues(db'.stickers[last'.pk], last'.input)]_vars

\* an Update has saved (10, 20, 3, 2) over a row that another Update had
\* set to (2, 3, 4, 5) after this one read it
C18_Witness ==
    /\ last.op = "sticker_update"
    /\ last.status = 200
    /\ last.stale
    /\ deleted = {}
    /\ last.input.rotation = "3"
    /\ last.pk \in DOMAIN db.stickers
    /\ db.stickers[last.pk].x = 10 /\ db.stickers[last.pk].y = 20
    /\ db.stickers[last.pk].rotation = 3 /\ db.stickers[last.pk].scale = 2

(***************************************************************************)
(* Properties of the wishlist requests.                                    *)
(***************************************************************************)
\* C19: the store never holds two Wish rows for one (profile, cafe) pair
C19_OneWishPerPair ==
    \A v, w \in DOMAIN db.wishes :
        (db.wishes[v].profile = db.wishes[w].profile /\ db.wishes[v].cafe = db.wishes[w].cafe)
            => v = w

\* the Wish (p1, c1) was removed and two adds for the pair then both passed
\* the existence check: the second create has been answered and the pair is
\* stored once, under a new key
C19_Witness ==
    /\ last.op \in {"wish_add", "wish_select"}
    /\ last.actor = "p1" /\ last.cafe = "c1"
    /\ last.stale
    /\ 1 \notin DOMAIN db.wishes
    /\ db.seqWish = 2
    /\ WishesOf(db, "p1", "c1") = {2}

\* C20: an add-to-wishlist request that passed the existence check and then
\* found the pair stored by a concurrent request is answered as an add that
\* found the cafe on the list (a redirect), and the pair is on the list
C20_RaceLoserIsIdempotent ==
    [][\A op \in {"wish_add", "wish_select"} :
          (Answer(op) /\ last'.stale)
              => /\ last'.status = 302
                 /\ WishesOf(db', last'.actor, last'.cafe) # {}]_vars

\* C21: an add request (direct or select-existing) for a pair that is on
\* the wishlist when the request starts is answered with the redirect of a
\* success and leaves the Wish rows as they were; a cafe creation (box
\* ticked or not) changes no existing Wish row and stores the new pair at
\* most once
C21_SequentialAddIdempotent ==
    [][/\ \A op \in {"wish_add", "wish_select"} :
            (/\ Answer(op)
             /\ DOMAIN pending' = DOMAIN pending
             /\ WishesOf(db, last'.actor, last'.cafe) # {})
                => (last'.status = 302 /\ db'.wishes = db.wishes /\ db'.seqWish = db.seqWish)
       /\ \A op \in {"wish_new_cafe", "cafe_create"} :
            Answer(op)
                => /\ last'.status \in {200, 302}
                   /\ Restrict(db'.wishes, DOMAIN db.wishes) = db.wishes
                   /\ Cardinality((DOMAIN db'.wishes) \ (DOMAIN db.wishes)) <= 1]_vars

\* p1 added c1, which was on the wishlist already: redirect, and the Wish
\* is the one stored at the start
C21_Witness ==
    /\ last.op = "wish_add"
    /\ last.actor = "p1" /\ last.cafe = "c1"
    /\ last.status = 302
    /\ last.n = 0
    /\ ~last.stale
    /\ db.wishes = SeedWish.wishes
    /\ db.seqWish = 1
    /\ pending = EmptyFn

(***************************************************************************)
(* C22: for every Wish (P, C) the wishlist page shows "already visited"    *)
(* exactly when a Visit by P to C exists at the time of the request, so it *)
(* is true once such a Visit is created and false again once the last one  *)
(* is deleted; and no visit request writes a Wish row.                     *)
(***************************************************************************)
VisitExists(d, profile, cafe) ==
    \E v \in DOMAIN d.visits : d.visits[v].profile = profile /\ d.visits[v].cafe = cafe

VisitOps == {"create", "update", "delete"}

C22_AnnotationFollowsVisits ==
    [][/\ last'.op = "wishlist" /\ served' = served + 1
            => /\ DOMAIN last'.input = {w \in DOMAIN db.wishes : db.wishes[w].profile = last'.actor}
               /\ \A w \in DOMAIN last'.input :
                      last'.input[w] = VisitExists(db, db.wishes[w].profile, db.wishes[w].cafe)
       /\ last'.op \in VisitOps /\ served' = served + 1
            => db'.wishes = db.wishes /\ db'.seqWish = db.seqWish]_vars

\* the wishlist of p1 after the only Visit by p1 to c1 was deleted
C22_Witness ==
    /\ last.op = "wishlist"
    /\ last.actor = "p1"
    /\ db.seqVisit = 1
    /\ db.visits = EmptyFn
    /\ last.input = Extend(Extend(EmptyFn, 1, FALSE), 2, FALSE)

(***************************************************************************)
(* C30: in every reachable state the four computations of "this profile    *)
(* has visited this cafe" (wishlist page, profile page, cafe page and      *)
(* CafeWish.has_been_visited) agree for every Wish (P, C), and equal the   *)
(* existence of a Visit by P to C.                                         *)
(***************************************************************************)
C30_ComputationsAgree ==
    \A w \in DOMAIN db.wishes :
        LET P == db.wishes[w].profile
            C == db.wishes[w].cafe
        IN  /\ WishlistHasVisited(db, P, w) = VisitExists(db, P, C)
            /\ ProfileIsVisited(db, P, w) = VisitExists(db, P, C)
            /\ CafeHasVisited(db, P, C) = VisitExists(db, P, C)
            /\ HasBeenVisited(db, w) = VisitExists(db, P, C)

\* p1 has logged a visit to c2 and deleted the one to c1; p2 has no visit
C30_Witness ==
    /\ last.op = "delete"
    /\ last.status = 302
    /\ VisitExists(db, "p1", "c2")
    /\ ~VisitExists(db, "p1", "c1")
    /\ HasBeenVisited(db, 2)
    /\ ~HasBeenVisited(db, 1)
    /\ ~ProfileIsVisited(db, "p2", 3)

(***************************************************************************)
(* C23: in every reachable state every Sticker, VisitPhoto and             *)
(* FavoriteItem references an existing Visit, every ItemPhoto an existing  *)
(* FavoriteItem, every Sticker an existing StickerType and every Visit an  *)
(* existing profile and Cafe; so deleting a Visit or a flagged             *)
(* FavoriteItem leaves no row that references it.                          *)
(***************************************************************************)
C23_ReferencesResolve ==
    /\ \A k \in DOMAIN db.stickers :
           db.stickers[k].visit \in DOMAIN db.visits /\ db.stickers[k].type \in StickerTypes
    /\ \A p \in DOMAIN db.photos : db.photos[p].visit \in DOMAIN db.visits
    /\ \A i \in DOMAIN db.items : db.items[i].visit \in DOMAIN db.visits
    /\ \A p \in DOMAIN db.itemPhotos : db.itemPhotos[p].favorite_item \in DOMAIN db.items
    /\ \A v \in DOMAIN db.visits :
           db.visits[v].profile \in Profiles /\ CafeExists(db, db.visits[v].cafe)

\* the Visit with a photo, an item with a photo and two stickers was deleted
C23_Witness ==
    /\ last.op = "delete"
    /\ last.pk = 1
    /\ last.status = 302
    /\ db.seqSticker >= 2 /\ db.seqPhoto >= 1 /\ db.seqItemPhoto >= 1
    /\ 1 \notin DOMAIN db.visits
    /\ db.stickers = EmptyFn
    /\ db.photos = EmptyFn
    /\ db.items = EmptyFn
    /\ db.itemPhotos = EmptyFn

(***************************************************************************)
(* C24: when the nested ItemPhoto collections of two or more FavoriteItems *)
(* of a Protocol A request are invalid, the handler validates the nested   *)
(* collection of every FavoriteItem that is not flagged for deletion       *)
(* before it answers, so that all nested errors are reported and not only  *)
(* the first.                                                              *)
(***************************************************************************)
TopLevelValid(in) ==
    VisitFormValid(in) /\ PhotoFormSetValid(in.photos) /\ FavoriteItemFormSetValid(in.items)

InvalidNested(fs, create) ==
    {i \in NestedChecked(fs, create) : ~PhotoFormSetValid(fs[i].photos)}

NewPhotoEntriesOf(fs) == {j \in PhotoEntriesOf(fs) : fs[j].id = 0}

\* store e holds the items of submission in for Visit v, written over d
ItemsPersisted(d, e, v, in) ==
    LET kept == {i \in ItemEntriesOf(in.items) : in.items[i].id # 0}
        added == Ascending({i \in ItemEntriesOf(in.items) : in.items[i].id = 0})
        newItems == Ascending((DOMAIN e.items) \ (DOMAIN d.items))
        newItemPhotos == (DOMAIN e.itemPhotos) \ (DOMAIN d.itemPhotos)
        AddedTo(k) == {p \in newItemPhotos : e.itemPhotos[p].favorite_item = k}
    IN  /\ \A i \in kept :
              /\ in.items[i].id \in DOMAIN e.items
              /\ e.items[in.items[i].id].visit = v
              /\ Cardinality(AddedTo(in.items[i].id))
                    = Cardinality(NewPhotoEntriesOf(in.items[i].photos))
        /\ Len(newItems) = Len(added)
        /\ \A k \in DOMAIN newItems :
              /\ e.items[newItems[k]].visit = v
              /\ Cardinality(AddedTo(newItems[k]))
                    = Cardinality(NewPhotoEntriesOf(in.items[added[k]].photos))

ValidUpdate ==
    /\ last'.op = "update"
    /\ served' = served + 1
    /\ last'.pk \in DOMAIN db.visits
    /\ ~FailsValidation(last'.input)
    /\ WithinMaxima(last'.input)

C25_UpdatePersistsItems ==
    [][ValidUpdate => ItemsPersisted(db, db', last'.pk, last'.input)]_vars

(***************************************************************************)
(* C26: in a valid Protocol A update every existing VisitPhoto,            *)
(* FavoriteItem and ItemPhoto flagged for deletion is absent after the     *)
(* request, a deleted FavoriteItem together with its ItemPhotos, and every *)
(* existing sub-entity that is not flagged still exists.                   *)
(***************************************************************************)
Flagged(fs) == {fs[i].id : i \in {j \in DOMAIN fs : fs[j].id # 0 /\ fs[j].DELETE}}

DeletionsApplied(d, e, v, in) ==
    LET delPhotos == Flagged(in.photos)
        delItems == Flagged(in.items)
        delItemPhotos == UNION {Flagged(in.items[i].photos) : i \in DOMAIN in.items}
    IN  /\ delPhotos \cap DOMAIN e.photos = {}
        /\ delItems \cap DOMAIN e.items = {}
        /\ \A i \in delItems : ItemPhotosOf(e, i) = {}
        /\ delItemPhotos \cap DOMAIN e.itemPhotos = {}
        /\ PhotosOf(d, v) \ delPhotos \subseteq PhotosOf(e, v)
        /\ ItemsOf(d, v) \ delItems \subseteq ItemsOf(e, v)
        /\ \A i \in ItemsOf(d, v) \ delItems :
              ItemPhotosOf(d, i) \ delItemPhotos \subseteq ItemPhotosOf(e, i)

C26_UpdateAppliesDeletions ==
    [][ValidUpdate => DeletionsApplied(db, db', last'.pk, last'.input)]_vars

(***************************************************************************)
(* C27: the image of a Sticker is the image its StickerType had when the   *)
(* Place request ran, and no later step changes it: after the image of the *)
(* StickerType is replaced, the Stickers placed before keep the image they *)
(* copied.                                                                 *)
(***************************************************************************)
C27_ImageCopiedAtPlace ==
    [][/\ \A k \in (DOMAIN db.stickers) \cap (DOMAIN db'.stickers) :
              db'.stickers[k].image = db.stickers[k].image
       /\ Answer("sticker_place")
              => \A k \in (DOMAIN db'.stickers) \ (DOMAIN db.stickers) :
                     db'.stickers[k].image = db.typeImages[db'.stickers[k].type]]_vars

\* Sticker 1 was updated after the image of its StickerType was replaced
C27_Witness ==
    /\ last.op = "sticker_update"
    /\ last.pk = 1
    /\ last.status = 200
    /\ 1 \in DOMAIN db.stickers
    /\ db.stickers[1].x # SeedSticker("heart").x
    /\ db.stickers[1].image = SeedTypeImages["heart"]
    /\ db.typeImages["heart"] = ReplacedImage("heart")

(***************************************************************************)
(* C28: a Place, Update or Delete sticker request changes the store only   *)
(* when the Visit it targets (the Visit of the targeted Sticker) is owned  *)
(* by the profile of the acting user; a request of another user or of a    *)
(* client that is not logged in changes no Sticker.                        *)
(***************************************************************************)
StickerOps == {"sticker_place", "sticker_update", "sticker_delete"}

\* the Visit a sticker request targets, 0 when it resolves to none
TargetVisit(d, e, r) ==
    IF r.op = "sticker_place" THEN r.input.visit_id
    ELSE IF r.pk \in DOMAIN d.stickers THEN d.stickers[r.pk].visit
    ELSE IF r.pk \in DOMAIN e.stickers THEN e.stickers[r.pk].visit
    ELSE 0

C28_OnlyOwnerChangesStickers ==
    [][\A op \in StickerOps :
          (Answer(op) /\ db' # db)
              => /\ TargetVisit(db, db', last') \in DOMAIN db.visits
                 /\ db.visits[TargetVisit(db, db', last')].profile = last'.actor]_vars

(***************************************************************************)
(* C29: no Protocol A update, accepted or rejected, changes the profile or *)
(* the cafe of the Visit, whatever the request body names.                 *)
(***************************************************************************)
C29_UpdateKeepsOwnerAndCafe ==
    [][(last'.op = "update" /\ served' = served + 1)
          => /\ DOMAIN db'.visits = DOMAIN db.visits
             /\ \A v \in DOMAIN db.visits :
                    /\ db'.visits[v].profile = db.visits[v].profile
                    /\ db'.visits[v].cafe = db.visits[v].cafe]_vars

\* an accepted update of the Visit of p1 to c1 whose body named p2 and c2
C29_Witness ==
    /\ last.op = "update"
    /\ last.status = 302
    /\ last.pk \in DOMAIN db.visits
    /\ last.input.profile = "p2" /\ last.input.cafe = "c2"
    /\ db.visits[last.pk].profile = "p1"
    /\ db.visits[last.pk].cafe = "c1"

====
